---- MODULE Spec2Model ----
(***************************************************************************)
(* A model of the website-domain-scraper: scraper.py (one thread, local    *)
(* state, occurrence counts) and config_scraper.py (a pool of worker       *)
(* threads over module-global state, presence set).                        *)
(***************************************************************************)
EXTENDS Integers, Sequences, FiniteSets, TLC

(***************************************************************************)
(* Bounds of the model.                                                    *)
(***************************************************************************)
MaxWorkers == 2

MaxPagesBound == 3

MaxRuns == 2

(***************************************************************************)
(* Python str values.  A str of the model is a TLA+ string; CharTable      *)
(* gives the characters of every str the model uses, so that parsing and   *)
(* comparison work on characters as Python's do.                           *)
(***************************************************************************)
CharTable ==
  { <<"", <<>>>>,
    <<"https://a.test/", <<"h", "t", "t", "p", "s", ":", "/", "/", "a", ".", "t", "e", "s", "t", "/">>>>,
    <<"https://a.test/p2", <<"h", "t", "t", "p", "s", ":", "/", "/", "a", ".", "t", "e", "s", "t", "/", "p", "2">>>>,
    <<"https://b.test/", <<"h", "t", "t", "p", "s", ":", "/", "/", "b", ".", "t", "e", "s", "t", "/">>>>,
    <<"https://b.test/x", <<"h", "t", "t", "p", "s", ":", "/", "/", "b", ".", "t", "e", "s", "t", "/", "x">>>>,
    <<"https://b.test/y", <<"h", "t", "t", "p", "s", ":", "/", "/", "b", ".", "t", "e", "s", "t", "/", "y">>>>,
    <<"https://b.test/z", <<"h", "t", "t", "p", "s", ":", "/", "/", "b", ".", "t", "e", "s", "t", "/", "z">>>>,
    <<"https://c.test/", <<"h", "t", "t", "p", "s", ":", "/", "/", "c", ".", "t", "e", "s", "t", "/">>>>,
    <<"https://d.test/", <<"h", "t", "t", "p", "s", ":", "/", "/", "d", ".", "t", "e", "s", "t", "/">>>>,
    <<"mailto:m", <<"m", "a", "i", "l", "t", "o", ":", "m">>>>,
    <<"ftp://bad", <<"f", "t", "p", ":", "/", "/", "b", "a", "d">>>>,
    <<"a.test/p2", <<"a", ".", "t", "e", "s", "t", "/", "p", "2">>>>,
    <<"a.test", <<"a", ".", "t", "e", "s", "t">>>>,
    <<"b.test", <<"b", ".", "t", "e", "s", "t">>>>,
    <<"c.test", <<"c", ".", "t", "e", "s", "t">>>>,
    <<"d.test", <<"d", ".", "t", "e", "s", "t">>>>,
    <<"bad", <<"b", "a", "d">>>> }

Chars(s) == (CHOOSE p \in CharTable : p[1] = s)[2]

Str(cs) == (CHOOSE p \in CharTable : p[2] = cs)[1]

\* ord(c) of the characters in use.
Ord(c) ==
  CASE c = "." -> 46 [] c = "/" -> 47 [] c = "2" -> 50 [] c = ":" -> 58
    [] c = "a" -> 97 [] c = "b" -> 98 [] c = "c" -> 99 [] c = "d" -> 100
    [] c = "e" -> 101 [] c = "f" -> 102 [] c = "h" -> 104 [] c = "i" -> 105
    [] c = "l" -> 108 [] c = "m" -> 109 [] c = "o" -> 111 [] c = "p" -> 112
    [] c = "s" -> 115 [] c = "t" -> 116 [] c = "x" -> 120 [] c = "y" -> 121
    [] c = "z" -> 122

IsAlpha(c) == (Ord(c) >= 97) /\ (Ord(c) <= 122)

IsSchemeChar(c) == IsAlpha(c) \/ (Ord(c) >= 48 /\ Ord(c) <= 57) \/ c = "."

\* str.find: the first index of character c in cs, 0 when there is none.
Find(cs, c) ==
  IF \E i \in 1..Len(cs) : cs[i] = c
  THEN CHOOSE i \in 1..Len(cs) : cs[i] = c /\ \A j \in 1..(i - 1) : cs[j] # c
  ELSE 0

\* a < b on str: lexicographic by code point, a proper prefix being smaller.
StrLess(a, b) ==
  LET x == Chars(a)
      y == Chars(b)
  IN  \E i \in 1..(Len(y)) :
        /\ \A j \in 1..(i - 1) : j <= Len(x) /\ x[j] = y[j]
        /\ \/ i = Len(x) + 1
           \/ (i <= Len(x) /\ Ord(x[i]) < Ord(y[i]))

(***************************************************************************)
(* urllib.parse.urlparse, as far as the scheme and the netloc go: the      *)
(* scheme is what precedes the first ":" when it starts with a letter and  *)
(* holds scheme characters only; the netloc is what follows a leading "//" *)
(* up to the next "/".                                                     *)
(***************************************************************************)
urlparse(url) ==
  LET cs == Chars(url)
      i == Find(cs, ":")
      hasScheme == /\ i > 1
                   /\ IsAlpha(cs[1])
                   /\ \A j \in 1..(i - 1) : IsSchemeChar(cs[j])
      rest == IF hasScheme THEN SubSeq(cs, i + 1, Len(cs)) ELSE cs
      hasNetloc == Len(rest) >= 2 /\ rest[1] = "/" /\ rest[2] = "/"
      after == IF hasNetloc THEN SubSeq(rest, 3, Len(rest)) ELSE <<>>
      k == Find(after, "/")
  IN  [scheme |-> IF hasScheme THEN SubSeq(cs, 1, i - 1) ELSE <<>>,
       netloc |-> IF k = 0 THEN after ELSE SubSeq(after, 1, k - 1)]

\* urlparse of every str in use, computed once.
ParsedUrls == [p \in {q[1] : q \in CharTable} |-> urlparse(p)]

get_domain(url) == Str(ParsedUrls[url].netloc)

\* Faulty variant of is_internal_link: a URL without a domain is not internal.
SameDomainOnly(url, base_domain) == get_domain(url) = base_domain

is_internal_link(url, base_domain) ==
  LET url_domain == get_domain(url)
  IN  url_domain = base_domain \/ url_domain = ""

(***************************************************************************)
(* The web the crawler runs against: what fetch_page returns for a URL and *)
(* what extract_links makes of it.  kind "ok": a page whose anchors join   *)
(* to the given absolute URLs; "fail": requests raises a RequestException  *)
(* and fetch_page returns ""; "raise": the page is fetched but urljoin     *)
(* raises ValueError on one of its hrefs.  Any other URL fails.            *)
(***************************************************************************)
Page(kind, hrefs) == [kind |-> kind, links |-> hrefs]

Web(url) ==
  CASE url = "https://a.test/" ->
         Page("ok", <<"https://a.test/p2", "https://b.test/x", "https://b.test/y">>)
    [] url = "https://a.test/p2" ->
         Page("ok", <<"https://a.test/", "https://d.test/", "https://c.test/">>)
    [] url = "https://b.test/" ->
         Page("ok", <<"https://b.test/x", "https://b.test/z", "https://b.test/x">>)
    [] url = "https://b.test/z" ->
         Page("ok", <<"mailto:m", "https://b.test/y", "https://c.test/">>)
    [] url = "https://b.test/y" -> Page("raise", <<>>)
    [] OTHER -> Page("fail", <<>>)

\* The start URLs a caller may hand to main.
Seeds ==
  {"https://a.test/", "https://b.test/", "https://b.test/z", "ftp://bad",
   "a.test/p2", "mailto:m"}

Threads == 1..MaxWorkers

NoThread == 0

VARIABLES
  prog,                  \* which script runs: "scraper" or "config_scraper"
  max_pages, num_workers,
  start_url, base_domain,
  mpc,                   \* where the main thread is
  runs,                  \* invocations of main so far
  to_visit,              \* scraper.py: the list of pending URLs
  url_queue,             \* config_scraper.py: the module's queue.Queue
  visited_urls, page_count,
  external_domains,      \* config_scraper.py: the module's set
  external_counts,       \* scraper.py: the Counter, items in insertion order
  page_count_lock, visited_urls_lock, external_domains_lock,
  pc,                    \* per thread: where it is
  current_url,           \* per thread: the URL in hand, "" between iterations
  links,                 \* per thread: the extracted links not yet processed
  report,                \* the lines save_domains_to_file wrote
  returned,              \* main: the object crawl_website returned last, as
                         \*       <<its contents>>; <<>> before any return
  fetch_count,           \* history: calls of fetch_page per URL, this run
  admit_log,             \* history: <<url, depth>> in order of first admission,
                         \*          kept in runs of a single thread
  clean_start            \* history: the run started from a frontier that
                         \*          held the start URL and nothing else

cfgv == <<prog, max_pages, num_workers>>

locks == <<page_count_lock, visited_urls_lock, external_domains_lock>>

hist == <<fetch_count, admit_log, clean_start>>

vars == <<prog, max_pages, num_workers, start_url, base_domain, mpc, runs,
          to_visit, url_queue, visited_urls, page_count, external_domains,
          external_counts, page_count_lock, visited_urls_lock,
          external_domains_lock, pc, current_url, links, report, returned,
          fetch_count, admit_log, clean_start>>

Range(s) == {s[i] : i \in 1..Len(s)}

\* The str values that are URLs.
URLs == {p[1] : p \in CharTable}

NoFetches == [u \in URLs |-> 0]

Fetched(count, url) == [count EXCEPT ![url] = @ + 1]

Init ==
  /\ prog \in {"scraper", "config_scraper"}
  /\ max_pages \in 1..MaxPagesBound
  /\ num_workers \in (IF prog = "scraper" THEN {1} ELSE 1..MaxWorkers)
  /\ start_url = ""
  /\ base_domain = ""
  /\ mpc = "idle"
  /\ runs = 0
  /\ to_visit = <<>>
  /\ url_queue = <<>>
  /\ visited_urls = {}
  /\ page_count = 0
  /\ external_domains = {}
  /\ external_counts = <<>>
  /\ page_count_lock = NoThread
  /\ visited_urls_lock = NoThread
  /\ external_domains_lock = NoThread
  /\ pc = [w \in Threads |-> "none"]
  /\ current_url = [w \in Threads |-> ""]
  /\ links = [w \in Threads |-> <<>>]
  /\ report = <<>>
  /\ returned = <<>>
  /\ fetch_count = NoFetches
  /\ admit_log = <<>>
  /\ clean_start = FALSE

\* config_scraper.py returns the module's set itself: once returned, what the
\* caller holds is that object, and shows whatever is done to it later.
SameObject(held, contents) == IF held = <<>> THEN held ELSE <<contents>>

(***************************************************************************)
(* main: the start URL is validated, then crawl_website is called.         *)
(***************************************************************************)
SeedAccepted(url) ==
  LET parsed_url == urlparse(url)
  IN  ~(parsed_url.scheme = <<>> \/ parsed_url.netloc = <<>>)

Callable == mpc \in {"idle", "rejected", "saved"} /\ runs < MaxRuns

main_invalid(url) ==
  /\ Callable
  /\ ~SeedAccepted(url)
  /\ start_url' = url
  /\ mpc' = "rejected"
  /\ runs' = runs + 1
  /\ report' = <<>>
  /\ UNCHANGED <<cfgv, returned, base_domain, to_visit, url_queue, visited_urls,
                 page_count, external_domains, external_counts, locks, pc,
                 current_url, links, hist>>

\* The depth-0 entries of the admission history for a frontier as it stands
\* when a run starts.
Roots(q) ==
  LET f[n \in 0..Len(q)] ==
        IF n = 0 THEN <<>>
        ELSE IF \E i \in 1..Len(f[n - 1]) : f[n - 1][i][1] = q[n]
             THEN f[n - 1]
             ELSE Append(f[n - 1], <<q[n], 0>>)
  IN  f[Len(q)]

\* scraper.py: main calls crawl_website, which sets up its locals.
scraper_crawl_website(url) ==
  /\ prog = "scraper"
  /\ Callable
  /\ SeedAccepted(url)
  /\ start_url' = url
  /\ runs' = runs + 1
  /\ base_domain' = get_domain(url)
  /\ visited_urls' = {}
  /\ to_visit' = <<url>>
  /\ external_counts' = <<>>
  /\ page_count' = 0
  /\ mpc' = "running"
  /\ pc' = [pc EXCEPT ![1] = "loop"]
  /\ fetch_count' = NoFetches
  /\ admit_log' = Roots(to_visit')
  /\ clean_start' = (to_visit' = <<url>>)
  /\ report' = <<>>
  /\ current_url' = [w \in Threads |-> ""]
  /\ links' = [w \in Threads |-> <<>>]
  /\ UNCHANGED <<cfgv, returned, url_queue, external_domains, locks>>

\* config_scraper.py: main calls crawl_website, which resets the globals,
\* puts the start URL and submits num_workers workers to the executor.
config_crawl_website(url) ==
  /\ prog = "config_scraper"
  /\ Callable
  /\ SeedAccepted(url)
  /\ start_url' = url
  /\ runs' = runs + 1
  /\ page_count' = 0
  /\ visited_urls' = {}
  /\ external_domains' = {}
  /\ returned' = SameObject(returned, external_domains')
  /\ base_domain' = get_domain(url)
  /\ url_queue' = Append(url_queue, url)
  /\ mpc' = "running"
  /\ pc' = [w \in Threads |-> IF w <= num_workers THEN "loop" ELSE "none"]
  /\ fetch_count' = NoFetches
  /\ admit_log' = IF num_workers = 1 THEN Roots(url_queue') ELSE <<>>
  /\ clean_start' = (url_queue' = <<url>>)
  /\ report' = <<>>
  /\ current_url' = [w \in Threads |-> ""]
  /\ links' = [w \in Threads |-> <<>>]
  /\ UNCHANGED <<cfgv, to_visit, external_counts, locks>>

(***************************************************************************)
(* Helpers of the crawl loops.                                             *)
(***************************************************************************)
\* Faulty variant of Release: the lock stays with the thread.
KeepHeld(w) == w

\* The end of a "with lock:" block: the lock is free again.
Release(w) == NoThread

\* Faulty variant of PopFirst: the newest entry leaves first.
PopLast(q) == [url |-> q[Len(q)], rest |-> SubSeq(q, 1, Len(q) - 1)]

\* list.pop(0) and queue.Queue.get: the oldest entry leaves first.
PopFirst(q) == [url |-> Head(q), rest |-> Tail(q)]

\* Faulty variant of AlreadyVisited: the membership test is lost.
NeverVisited(url, visited) == FALSE

\* "current_url in visited_urls"
AlreadyVisited(url, visited) == url \in visited

\* scraper.py: "link not in visited_urls and link not in to_visit"
ScraperAdmits(link, visited, pending) ==
  link \notin visited /\ link \notin Range(pending)

\* config_scraper.py: "link not in visited_urls"
ConfigAdmits(link, visited) == link \notin visited

\* scraper.py: the loop runs while "to_visit and page_count < max_pages"
LoopContinues(pending, count, limit) == pending # <<>> /\ count < limit

\* Faulty variant of BudgetReached: the loop is left one page late.
BudgetExceeded(count, limit) == count > limit

\* Faulty variant of BudgetReached: the check at the top of the loop is lost.
NeverBudgetReached(count, limit) == FALSE

\* config_scraper.py: "page_count >= max_pages" at the top of the worker loop
BudgetReached(count, limit) == count >= limit

\* Faulty variant of OverBudget: the check after the increment is lost.
NeverOverBudget(count, limit) == FALSE

\* config_scraper.py: "current_count > max_pages" after the increment
OverBudget(count, limit) == count > limit

\* Faulty variant of CounterIncr: presence is recorded, not occurrences.
CounterMark(counter, d) ==
  IF \E i \in 1..Len(counter) : counter[i][1] = d
  THEN counter
  ELSE Append(counter, <<d, 1>>)

\* Faulty variant of OnNoContent: the loop is left.
OnNoContentBreak == "done"

\* "if not html: continue": where a thread goes when fetch_page gave nothing
OnNoContent == "loop"

\* Counter: external_domains[external_domain] += 1
CounterIncr(counter, d) ==
  IF \E i \in 1..Len(counter) : counter[i][1] = d
  THEN LET i == CHOOSE j \in 1..Len(counter) : counter[j][1] = d
       IN  [counter EXCEPT ![i] = <<d, counter[i][2] + 1>>]
  ELSE Append(counter, <<d, 1>>)

\* The admission history: a URL enters it when first admitted to the
\* frontier, one level below the page it was found on.
DepthOf(log, url) ==
  IF \E i \in 1..Len(log) : log[i][1] = url
  THEN (CHOOSE e \in Range(log) : e[1] = url)[2]
  ELSE 0

Admitted(log, url, parent) ==
  IF \E i \in 1..Len(log) : log[i][1] = url
  THEN log
  ELSE Append(log, <<url, DepthOf(log, parent) + 1>>)

(***************************************************************************)
(* scraper.py, crawl_website: the loop of the one thread.                  *)
(***************************************************************************)
\* The loop test, the pop, the visited check and the claim of the page.
scraper_loop ==
  /\ prog = "scraper"
  /\ pc[1] = "loop"
  /\ IF LoopContinues(to_visit, page_count, max_pages)
     THEN LET p == PopFirst(to_visit)
          IN  /\ to_visit' = p.rest
              /\ IF AlreadyVisited(p.url, visited_urls)
                 THEN UNCHANGED <<visited_urls, page_count, pc, current_url>>
                 ELSE /\ visited_urls' = visited_urls \cup {p.url}
                      /\ page_count' = page_count + 1
                      /\ current_url' = [current_url EXCEPT ![1] = p.url]
                      /\ pc' = [pc EXCEPT ![1] = "fetch"]
              /\ UNCHANGED <<mpc, returned>>
     ELSE /\ pc' = [pc EXCEPT ![1] = "done"]
          /\ mpc' = "returned"
          /\ returned' = <<external_counts>>
          /\ UNCHANGED <<current_url, to_visit, visited_urls, page_count>>
  /\ UNCHANGED <<cfgv, start_url, base_domain, runs, url_queue,
                 external_domains, external_counts, locks, links, report, hist>>

\* fetch_page and extract_links.  An exception of extract_links is caught
\* nowhere: it ends crawl_website and main.
scraper_fetch ==
  /\ prog = "scraper"
  /\ pc[1] = "fetch"
  /\ fetch_count' = Fetched(fetch_count, current_url[1])
  /\ LET page == Web(current_url[1])
     IN  CASE page.kind = "fail" ->
                /\ pc' = [pc EXCEPT ![1] = OnNoContent]
                /\ current_url' = [current_url EXCEPT ![1] = ""]
                /\ UNCHANGED <<links, mpc>>
           [] page.kind = "raise" ->
                /\ pc' = [pc EXCEPT ![1] = "crashed"]
                /\ mpc' = "crashed"
                /\ UNCHANGED <<links, current_url>>
           [] OTHER ->
                /\ links' = [links EXCEPT ![1] = page.links]
                /\ pc' = [pc EXCEPT ![1] = "links"]
                /\ UNCHANGED <<mpc, current_url>>
  /\ UNCHANGED <<cfgv, returned, start_url, base_domain, runs, to_visit, url_queue,
                 visited_urls, page_count, external_domains, external_counts,
                 locks, report, admit_log, clean_start>>

\* One turn of "for link in links", then the sleep that ends the iteration.
scraper_link ==
  /\ prog = "scraper"
  /\ pc[1] = "links"
  /\ IF links[1] = <<>>
     THEN /\ pc' = [pc EXCEPT ![1] = "loop"]
          /\ current_url' = [current_url EXCEPT ![1] = ""]
          /\ UNCHANGED <<links, to_visit, external_counts, admit_log>>
     ELSE LET link == Head(links[1])
          IN  /\ links' = [links EXCEPT ![1] = Tail(links[1])]
              /\ UNCHANGED <<pc, current_url>>
              /\ IF is_internal_link(link, base_domain)
                 THEN /\ IF ScraperAdmits(link, visited_urls, to_visit)
                         THEN /\ to_visit' = Append(to_visit, link)
                              /\ admit_log' = Admitted(admit_log, link, current_url[1])
                         ELSE UNCHANGED <<to_visit, admit_log>>
                      /\ UNCHANGED external_counts
                 ELSE /\ IF get_domain(link) # ""
                         THEN external_counts' = CounterIncr(external_counts, get_domain(link))
                         ELSE UNCHANGED external_counts
                      /\ UNCHANGED <<to_visit, admit_log>>
  /\ UNCHANGED <<cfgv, returned, start_url, base_domain, mpc, runs, url_queue,
                 visited_urls, page_count, external_domains, locks,
                 report, fetch_count, clean_start>>

(***************************************************************************)
(* config_scraper.py, worker: one thread of the pool.  Every "with lock:"  *)
(* block is two steps, the acquisition and the body with the release.      *)
(***************************************************************************)
worker_budget_lock(w) ==
  /\ prog = "config_scraper"
  /\ pc[w] = "loop"
  /\ page_count_lock = NoThread
  /\ page_count_lock' = w
  /\ pc' = [pc EXCEPT ![w] = "budget"]
  /\ UNCHANGED <<cfgv, returned, start_url, base_domain, mpc, runs, to_visit, url_queue,
                 visited_urls, page_count, external_domains, external_counts,
                 visited_urls_lock, external_domains_lock, current_url, links,
                 report, hist>>

\* "if page_count >= max_pages: break"
worker_budget(w) ==
  /\ prog = "config_scraper"
  /\ pc[w] = "budget"
  /\ page_count_lock = w
  /\ page_count_lock' = Release(w)
  /\ pc' = [pc EXCEPT ![w] = IF BudgetReached(page_count, max_pages)
                             THEN "done" ELSE "get"]
  /\ UNCHANGED <<cfgv, returned, start_url, base_domain, mpc, runs, to_visit, url_queue,
                 visited_urls, page_count, external_domains, external_counts,
                 visited_urls_lock, external_domains_lock, current_url, links,
                 report, hist>>

\* url_queue.get(timeout=1); on queue.Empty the worker sleeps and loops.
worker_get(w) ==
  /\ prog = "config_scraper"
  /\ pc[w] = "get"
  /\ IF url_queue # <<>>
     THEN LET p == PopFirst(url_queue)
          IN  /\ current_url' = [current_url EXCEPT ![w] = p.url]
              /\ url_queue' = p.rest
              /\ pc' = [pc EXCEPT ![w] = "visit"]
     ELSE /\ pc' = [pc EXCEPT ![w] = "loop"]
          /\ UNCHANGED <<current_url, url_queue>>
  /\ UNCHANGED <<cfgv, returned, start_url, base_domain, mpc, runs, to_visit,
                 visited_urls, page_count, external_domains, external_counts,
                 locks, links, report, hist>>

worker_visit_lock(w) ==
  /\ prog = "config_scraper"
  /\ pc[w] = "visit"
  /\ visited_urls_lock = NoThread
  /\ visited_urls_lock' = w
  /\ pc' = [pc EXCEPT ![w] = "visit_cs"]
  /\ UNCHANGED <<cfgv, returned, start_url, base_domain, mpc, runs, to_visit, url_queue,
                 visited_urls, page_count, external_domains, external_counts,
                 page_count_lock, external_domains_lock, current_url, links,
                 report, hist>>

\* "if current_url in visited_urls: task_done; continue" else add it.
worker_visit(w) ==
  /\ prog = "config_scraper"
  /\ pc[w] = "visit_cs"
  /\ visited_urls_lock = w
  /\ visited_urls_lock' = Release(w)
  /\ IF AlreadyVisited(current_url[w], visited_urls)
     THEN /\ pc' = [pc EXCEPT ![w] = "loop"]
          /\ current_url' = [current_url EXCEPT ![w] = ""]
          /\ UNCHANGED visited_urls
     ELSE /\ visited_urls' = visited_urls \cup {current_url[w]}
          /\ pc' = [pc EXCEPT ![w] = "count"]
          /\ UNCHANGED current_url
  /\ UNCHANGED <<cfgv, returned, start_url, base_domain, mpc, runs, to_visit, url_queue,
                 page_count, external_domains, external_counts,
                 page_count_lock, external_domains_lock, links,
                 report, hist>>

worker_count_lock(w) ==
  /\ prog = "config_scraper"
  /\ pc[w] = "count"
  /\ page_count_lock = NoThread
  /\ page_count_lock' = w
  /\ pc' = [pc EXCEPT ![w] = "count_cs"]
  /\ UNCHANGED <<cfgv, returned, start_url, base_domain, mpc, runs, to_visit, url_queue,
                 visited_urls, page_count, external_domains, external_counts,
                 visited_urls_lock, external_domains_lock, current_url, links,
                 report, hist>>

\* "page_count += 1; if current_count > max_pages: task_done; break"
worker_count(w) ==
  /\ prog = "config_scraper"
  /\ pc[w] = "count_cs"
  /\ page_count_lock = w
  /\ page_count_lock' = Release(w)
  /\ page_count' = page_count + 1
  /\ IF OverBudget(page_count', max_pages)
     THEN /\ pc' = [pc EXCEPT ![w] = "done"]
          /\ current_url' = [current_url EXCEPT ![w] = ""]
     ELSE /\ pc' = [pc EXCEPT ![w] = "fetch"]
          /\ UNCHANGED current_url
  /\ UNCHANGED <<cfgv, returned, start_url, base_domain, mpc, runs, to_visit, url_queue,
                 visited_urls, external_domains, external_counts,
                 visited_urls_lock, external_domains_lock, links,
                 report, hist>>

\* fetch_page and extract_links.  No content: task_done and continue.  An
\* exception of extract_links reaches the worker's handler, which logs it,
\* calls task_done and lets the loop go on.
worker_fetch(w) ==
  /\ prog = "config_scraper"
  /\ pc[w] = "fetch"
  /\ fetch_count' = Fetched(fetch_count, current_url[w])
  /\ LET page == Web(current_url[w])
     IN  CASE page.kind = "fail" ->
                /\ pc' = [pc EXCEPT ![w] = OnNoContent]
                /\ current_url' = [current_url EXCEPT ![w] = ""]
                /\ UNCHANGED links
           [] page.kind = "raise" ->
                /\ pc' = [pc EXCEPT ![w] = "loop"]
                /\ current_url' = [current_url EXCEPT ![w] = ""]
                /\ UNCHANGED links
           [] OTHER ->
                /\ links' = [links EXCEPT ![w] = page.links]
                /\ pc' = [pc EXCEPT ![w] = "links"]
                /\ UNCHANGED current_url
  /\ UNCHANGED <<cfgv, returned, start_url, base_domain, mpc, runs, to_visit, url_queue,
                 visited_urls, page_count, external_domains, external_counts,
                 locks, report, admit_log, clean_start>>

\* The for loop is over: sleep(request_delay), task_done, next iteration.
worker_links_done(w) ==
  /\ prog = "config_scraper"
  /\ pc[w] = "links"
  /\ links[w] = <<>>
  /\ pc' = [pc EXCEPT ![w] = "loop"]
  /\ current_url' = [current_url EXCEPT ![w] = ""]
  /\ UNCHANGED <<cfgv, returned, start_url, base_domain, mpc, runs, to_visit, url_queue,
                 visited_urls, page_count, external_domains, external_counts,
                 locks, links, report, hist>>

\* An internal link: "with visited_urls_lock:"
worker_put_lock(w) ==
  /\ prog = "config_scraper"
  /\ pc[w] = "links"
  /\ links[w] # <<>>
  /\ is_internal_link(Head(links[w]), base_domain)
  /\ visited_urls_lock = NoThread
  /\ visited_urls_lock' = w
  /\ pc' = [pc EXCEPT ![w] = "put_cs"]
  /\ UNCHANGED <<cfgv, returned, start_url, base_domain, mpc, runs, to_visit, url_queue,
                 visited_urls, page_count, external_domains, external_counts,
                 page_count_lock, external_domains_lock, current_url, links,
                 report, hist>>

\* "if link not in visited_urls: url_queue.put(link)"
worker_put(w) ==
  /\ prog = "config_scraper"
  /\ pc[w] = "put_cs"
  /\ visited_urls_lock = w
  /\ visited_urls_lock' = Release(w)
  /\ LET link == Head(links[w])
     IN  IF ConfigAdmits(link, visited_urls)
         THEN /\ url_queue' = Append(url_queue, link)
              /\ admit_log' = IF num_workers = 1
                              THEN Admitted(admit_log, link, current_url[w])
                              ELSE admit_log
         ELSE UNCHANGED <<url_queue, admit_log>>
  /\ links' = [links EXCEPT ![w] = Tail(links[w])]
  /\ pc' = [pc EXCEPT ![w] = "links"]
  /\ UNCHANGED <<cfgv, returned, start_url, base_domain, mpc, runs, to_visit,
                 visited_urls, page_count, external_domains, external_counts,
                 page_count_lock, external_domains_lock, current_url, report,
                 fetch_count, clean_start>>

\* An external link with a domain: "with external_domains_lock:"
worker_ext_lock(w) ==
  /\ prog = "config_scraper"
  /\ pc[w] = "links"
  /\ links[w] # <<>>
  /\ ~is_internal_link(Head(links[w]), base_domain)
  /\ get_domain(Head(links[w])) # ""
  /\ external_domains_lock = NoThread
  /\ external_domains_lock' = w
  /\ pc' = [pc EXCEPT ![w] = "ext_cs"]
  /\ UNCHANGED <<cfgv, returned, start_url, base_domain, mpc, runs, to_visit, url_queue,
                 visited_urls, page_count, external_domains, external_counts,
                 page_count_lock, visited_urls_lock, current_url, links,
                 report, hist>>

\* "external_domains.add(external_domain)"
worker_ext(w) ==
  /\ prog = "config_scraper"
  /\ pc[w] = "ext_cs"
  /\ external_domains_lock = w
  /\ external_domains_lock' = Release(w)
  /\ external_domains' = external_domains \cup {get_domain(Head(links[w]))}
  /\ returned' = SameObject(returned, external_domains')
  /\ links' = [links EXCEPT ![w] = Tail(links[w])]
  /\ pc' = [pc EXCEPT ![w] = "links"]
  /\ UNCHANGED <<cfgv, start_url, base_domain, mpc, runs, to_visit, url_queue,
                 visited_urls, page_count, external_counts, page_count_lock,
                 visited_urls_lock, current_url, report, hist>>

\* crawl_website: the executor's with block ends when every worker has
\* returned; then the function returns external_domains.
config_crawl_return ==
  /\ prog = "config_scraper"
  /\ mpc = "running"
  /\ \A w \in 1..num_workers : pc[w] = "done"
  /\ mpc' = "returned"
  /\ returned' = <<external_domains>>
  /\ UNCHANGED <<cfgv, start_url, base_domain, runs, to_visit, url_queue,
                 visited_urls, page_count, external_domains, external_counts,
                 locks, pc, current_url, links, report, hist>>

\* Faulty variant of ItemKeyLess: the key is the count alone.
ItemKeyLessCountOnly(a, b) == (0 - a[2]) < (0 - b[2])

\* scraper.py: key=lambda x: (-x[1], x[0]) on (domain, count) items
ItemKeyLess(a, b) ==
  (0 - a[2]) < (0 - b[2]) \/ (a[2] = b[2] /\ StrLess(a[1], b[1]))

\* config_scraper.py: sorted(domains) compares the str themselves
DomainLess(a, b) == StrLess(a, b)

\* The comparison sorted() applies: the key function of scraper.py, or the
\* items themselves (config_scraper.py, one-field items).
KeyLess(key, a, b) ==
  IF key = "count_name" THEN ItemKeyLess(a, b) ELSE DomainLess(a[1], b[1])

(***************************************************************************)
(* save_domains_to_file: sorted() is a stable sort of the items in the     *)
(* order the container yields them.                                        *)
(***************************************************************************)
Sorted(seq, key) ==
  LET Less(a, b) == KeyLess(key, a, b)
      Ins(acc, e) ==
        LET k == Cardinality({i \in 1..Len(acc) :
                    \A j \in 1..i : ~Less(e, acc[j])})
        IN  SubSeq(acc, 1, k) \o <<e>> \o SubSeq(acc, k + 1, Len(acc))
      f[n \in 0..Len(seq)] == IF n = 0 THEN <<>> ELSE Ins(f[n - 1], seq[n])
  IN  f[Len(seq)]

\* The orders in which a Python set may yield its members.
Enumerations(S) ==
  {s \in [1..Cardinality(S) -> S] : Range(s) = S}

\* scraper.py: the lines written for the items in the given order
ScraperReport(items) == Sorted(items, "count_name")

\* config_scraper.py: the lines written for the domains in the given order
ConfigReport(order) ==
  Sorted([i \in 1..Len(order) |-> <<order[i]>>], "item")

scraper_save ==
  /\ prog = "scraper"
  /\ mpc = "returned"
  /\ report' = ScraperReport(external_counts)
  /\ mpc' = "saved"
  /\ UNCHANGED <<cfgv, returned, start_url, base_domain, runs, to_visit, url_queue,
                 visited_urls, page_count, external_domains, external_counts,
                 locks, pc, current_url, links, hist>>

config_save ==
  /\ prog = "config_scraper"
  /\ mpc = "returned"
  /\ \E order \in Enumerations(external_domains) :
       report' = ConfigReport(order)
  /\ mpc' = "saved"
  /\ UNCHANGED <<cfgv, returned, start_url, base_domain, runs, to_visit, url_queue,
                 visited_urls, page_count, external_domains, external_counts,
                 locks, pc, current_url, links, hist>>

worker(w) ==
  \/ worker_budget_lock(w)
  \/ worker_budget(w)
  \/ worker_get(w)
  \/ worker_visit_lock(w)
  \/ worker_visit(w)
  \/ worker_count_lock(w)
  \/ worker_count(w)
  \/ worker_fetch(w)
  \/ worker_links_done(w)
  \/ worker_put_lock(w)
  \/ worker_put(w)
  \/ worker_ext_lock(w)
  \/ worker_ext(w)

NextScraper ==
  \/ \E url \in Seeds : scraper_crawl_website(url)
  \/ scraper_loop
  \/ scraper_fetch
  \/ scraper_link
  \/ scraper_save

NextConfig ==
  \/ \E url \in Seeds : main_invalid(url)
  \/ \E url \in Seeds : config_crawl_website(url)
  \/ \E w \in Threads : worker(w)
  \/ config_crawl_return
  \/ config_save

Next == NextScraper \/ NextConfig

Spec == Init /\ [][Next]_vars

(***************************************************************************)
(* config_scraper.py alone, with the scheduling the threads can count on:  *)
(* a thread that can take a step eventually takes one, and the main thread *)
(* leaves the executor's with block once every worker has returned.        *)
(***************************************************************************)
InitConfig == Init /\ prog = "config_scraper"

FairSpec ==
  /\ InitConfig
  /\ [][NextConfig]_vars
  /\ \A w \in Threads : WF_vars(worker(w))
  /\ WF_vars(config_crawl_return)

(***************************************************************************)
(* Vocabulary of the properties.                                           *)
(***************************************************************************)
RECURSIVE SumOver(_, _)
SumOver(f, S) ==
  IF S = {} THEN 0
  ELSE LET x == CHOOSE y \in S : TRUE
       IN  f[x] + SumOver(f, S \ {x})

\* Calls of fetch_page in the current run.
TotalFetches == SumOver(fetch_count, URLs)

FetchedUrls == {u \in URLs : fetch_count[u] > 0}

Frontier == IF prog = "scraper" THEN to_visit ELSE url_queue

\* The external-domain result as a set of (domain, count) items; a member
\* of config_scraper.py's set counts once.
ResultItems ==
  IF prog = "scraper" THEN Range(external_counts)
  ELSE {<<d, 1>> : d \in external_domains}

Started == 1..num_workers

\* C1: within one run of crawl_website no URL is handed to fetch_page more
\* than once, whatever the number of workers and their interleaving.
C1_NoUrlFetchedTwice == \A u \in URLs : fetch_count[u] <= 1

\* Two workers hold the same dequeued URL; one of them has claimed it and is
\* about to fetch it, the other is at the membership test.
C1_Witness ==
  /\ prog = "config_scraper"
  /\ \E v \in Started : \E w \in Started :
       /\ v # w
       /\ current_url[v] # ""
       /\ current_url[v] = current_url[w]
       /\ pc[v] = "fetch"
       /\ pc[w] = "visit_cs"

\* C2: the number of fetch_page calls of a run never exceeds max_pages.
C2_FetchesWithinBudget == TotalFetches <= max_pages

\* The run is over with the budget used up, a worker having claimed a page
\* beyond the budget without fetching it, and URLs still queued.
C2_Witness ==
  /\ prog = "config_scraper"
  /\ mpc = "returned"
  /\ TotalFetches = max_pages
  /\ page_count > max_pages
  /\ url_queue # <<>>

\* No URL is in a worker's hand.
NoFetchInFlight ==
  \A w \in Started : pc[w] \in {"loop", "budget", "get", "done"}

\* C3: a multithreaded run whose budget is exhausted, or whose frontier is
\* empty with no fetch in flight, eventually ends: crawl_website returns.
C3_RunTerminates ==
  ( /\ mpc = "running"
    /\ \/ page_count >= max_pages
       \/ (url_queue = <<>> /\ NoFetchInFlight) )
  ~> (mpc = "returned")

\* The state in which crawl_website has just handed the run to its threads.
AtRunStart ==
  /\ mpc = "running"
  /\ \A w \in Started : pc[w] = "loop"
  /\ TotalFetches = 0

\* C4: when an invocation of crawl_website starts, the visited set and the
\* external-domain set are empty, the page counter is zero and the frontier
\* holds the new start URL and nothing else.
C4_FreshStateEachRun ==
  AtRunStart =>
    /\ visited_urls = {}
    /\ ResultItems = {}
    /\ page_count = 0
    /\ Frontier = <<start_url>>

\* C5: with a single thread and a frontier that started with the start URL
\* alone, the pages fetched so far are the first entries of the admission
\* history, each once, and their discovery depths never decrease: pages are
\* fetched in the order of their first admission, breadth first.
C5_BreadthFirstOrder ==
  (num_workers = 1 /\ clean_start /\ mpc \in {"running", "returned"}) =>
    LET n == TotalFetches
    IN  /\ n <= Len(admit_log)
        /\ \A i \in 1..Len(admit_log) :
             fetch_count[admit_log[i][1]] = (IF i <= n THEN 1 ELSE 0)
        /\ \A i \in 1..n : \A j \in i..n : admit_log[i][2] <= admit_log[j][2]

\* The single worker of config_scraper.py has fetched the start page and
\* both pages found on it, in the order of their admission, and pages of
\* the next level wait in the queue.
C5_Witness ==
  /\ prog = "config_scraper"
  /\ num_workers = 1
  /\ clean_start
  /\ TotalFetches = 3
  /\ admit_log[2][2] = 1
  /\ admit_log[3][2] = 1
  /\ \E i \in 1..Len(admit_log) : admit_log[i][2] = 2

\* A run of crawl_website with start_url is going on or is over.
InRun == mpc \in {"running", "returned", "saved", "crashed"}

\* C6: every URL fetched in a run is the run's start URL or internal to the
\* start URL's domain.
C6_OnlyInternalFetched ==
  InRun =>
    \A u \in FetchedUrls :
      u = start_url \/ is_internal_link(u, get_domain(start_url))

\* C7: a fetch that returns no content leaves the frontier and the external
\* domains as they were and sends the thread back to the head of its loop,
\* the run still going; and a run that returns has either used up its
\* budget or emptied the frontier, every claimed URL having been fetched.
C7_FailedFetchContinues ==
  /\ [][\A w \in Threads :
          ( /\ pc[w] = "fetch"
            /\ pc'[w] # "fetch"
            /\ Web(current_url[w]).kind = "fail" )
          => ( /\ pc'[w] = "loop"
               /\ mpc' = "running"
               /\ Frontier' = Frontier
               /\ ResultItems' = ResultItems )]_vars
  /\ [](mpc = "returned" =>
          \/ page_count >= max_pages
          \/ (Frontier = <<>> /\ FetchedUrls = visited_urls))

\* A run has returned in which a fetch failed and a URL that was queued
\* behind the failing one was fetched afterwards.
C7_Witness ==
  /\ mpc = "returned"
  /\ start_url = "https://b.test/"
  /\ fetch_count["https://b.test/x"] = 1
  /\ fetch_count["https://b.test/z"] = 1
  /\ "c.test" \in {e[1] : e \in ResultItems}

\* The internal URLs reachable from a start URL over the pages that can be
\* fetched.
Reachable(seed) ==
  LET base == get_domain(seed)
      Step(R) == R \cup {l \in URLs : \E u \in R :
                    /\ Web(u).kind = "ok"
                    /\ l \in Range(Web(u).links)
                    /\ is_internal_link(l, base)}
      f[k \in 0..Cardinality(URLs)] == IF k = 0 THEN {seed} ELSE Step(f[k - 1])
  IN  f[Cardinality(URLs)]

\* The links to domain d on the page at u, counted with repetition.
LinksTo(u, d, base) ==
  Cardinality({i \in 1..Len(Web(u).links) :
    /\ ~is_internal_link(Web(u).links[i], base)
    /\ get_domain(Web(u).links[i]) = d})

Domains == {get_domain(u) : u \in URLs} \ {""}

\* C8: when scraper.py's crawl_website returns from a run in which every
\* fetch succeeded on a site with fewer reachable internal URLs than
\* max_pages, the visited set is the set of reachable internal URLs and the
\* result holds, for every domain, the number of links to it on the visited
\* pages, domains without such a link being absent.
C8_CompleteCrawlCounts ==
  ( /\ prog = "scraper"
    /\ mpc = "returned"
    /\ \A u \in FetchedUrls : Web(u).kind = "ok"
    /\ Cardinality(Reachable(start_url)) < max_pages )
  => /\ visited_urls = Reachable(start_url)
     /\ \A d \in Domains :
          LET n == SumOver([u \in URLs |-> LinksTo(u, d, base_domain)],
                           visited_urls)
          IN  IF n = 0
              THEN \A e \in Range(external_counts) : e[1] # d
              ELSE <<d, n>> \in Range(external_counts)
     /\ \A i \in 1..Len(external_counts) : \A j \in 1..Len(external_counts) :
          external_counts[i][1] = external_counts[j][1] => i = j

\* The run from https://a.test/ with max_pages 3: both pages visited, two
\* links to b.test counted.
C8_Witness ==
  /\ prog = "scraper"
  /\ mpc = "returned"
  /\ start_url = "https://a.test/"
  /\ max_pages = 3
  /\ visited_urls = {"https://a.test/", "https://a.test/p2"}
  /\ external_counts = <<<<"b.test", 2>>, <<"d.test", 1>>, <<"c.test", 1>>>>

\* C9: a start URL without a scheme, without an authority, or ftp://bad, is
\* rejected by main: crawl_website is not entered with it.
C9_BadSeedRejected ==
  LET parsed == urlparse(start_url)
  IN  ( /\ runs > 0
        /\ \/ parsed.scheme = <<>>
           \/ parsed.netloc = <<>>
           \/ start_url = "ftp://bad" )
      => mpc = "rejected"

\* One report line comes before another: higher count first, equal counts in
\* ascending order of the domain names.
LineBefore(a, b) ==
  LET ca == IF Len(a) = 2 THEN a[2] ELSE 1
      cb == IF Len(b) = 2 THEN b[2] ELSE 1
  IN  ca > cb \/ (ca = cb /\ StrLess(a[1], b[1]))

\* C10: the report lists every domain of the result once, by descending
\* count and then ascending domain name, and is the same whatever the order
\* in which the result holds its domains.
C10_ReportSortedAndStable ==
  mpc = "saved" =>
    /\ {e[1] : e \in Range(report)} = {e[1] : e \in ResultItems}
    /\ Len(report) = Cardinality(ResultItems)
    /\ \A i \in 1..Len(report) : \A j \in (i + 1)..Len(report) :
         LineBefore(report[i], report[j])
    /\ IF prog = "scraper"
       THEN /\ Range(report) = ResultItems
            /\ \A order \in Enumerations(ResultItems) :
                 ScraperReport(order) = report
       ELSE \A order \in Enumerations(external_domains) :
              ConfigReport(order) = report

\* scraper.py has written three domains, the two with equal counts having
\* been discovered in the order opposite to that of their names.
C10_Witness ==
  /\ prog = "scraper"
  /\ mpc = "saved"
  /\ external_counts = <<<<"b.test", 2>>, <<"d.test", 1>>, <<"c.test", 1>>>>
  /\ report = <<<<"b.test", 2>>, <<"c.test", 1>>, <<"d.test", 1>>>>

\* C11: is_internal_link(url, base_domain) is true exactly when the authority
\* of url is base_domain or url has no authority, for the link a thread has
\* in hand and every base domain; and the worker acts on it: a link it is
\* about to enqueue is on the base domain or has no authority, a link whose
\* domain it is about to record is on another domain.
C11_InternalLinkClassification ==
  \A w \in Threads :
    links[w] # <<>> =>
      LET link == Head(links[w])
          netloc == urlparse(link).netloc
      IN  /\ \A b \in Domains \cup {base_domain} :
               is_internal_link(link, b) <=> (netloc = Chars(b) \/ netloc = <<>>)
          /\ pc[w] = "put_cs" => (netloc = Chars(base_domain) \/ netloc = <<>>)
          /\ pc[w] = "ext_cs" => (netloc # Chars(base_domain) /\ netloc # <<>>)

\* A worker is about to enqueue mailto:m, a link without authority, in a
\* crawl of b.test.
C11_Witness ==
  \E w \in Started :
    /\ pc[w] = "put_cs"
    /\ Head(links[w]) = "mailto:m"
    /\ base_domain = "b.test"

\* C12: in a run that started from a frontier holding the start URL alone,
\* the frontier holds no URL twice and no URL that is in the visited set.
C12_FrontierNoDuplicates ==
  (mpc = "running" /\ clean_start) =>
    /\ \A i \in 1..Len(Frontier) : \A j \in 1..Len(Frontier) :
         Frontier[i] = Frontier[j] => i = j
    /\ \A i \in 1..Len(Frontier) : Frontier[i] \notin visited_urls

\* C13: while a run is going on with page_count at max_pages or beyond, no
\* step adds a URL to the frontier.
C13_NoAdmissionAfterBudget ==
  [][(mpc = "running" /\ mpc' = "running" /\ clean_start
        /\ page_count >= max_pages)
       => Len(Frontier') <= Len(Frontier)]_vars

\* C14: in every state of a run, whatever the number of workers, page_count
\* is at most max_pages.
C14_PageCountCapped ==
  InRun => page_count <= max_pages

\* C15: in config_scraper.py the URLs claimed, in page_count and in the
\* visited set, exceed max_pages by at most num_workers - 1.
C15_OverClaimBounded ==
  (prog = "config_scraper" /\ InRun) =>
    /\ page_count <= max_pages + num_workers - 1
    /\ Cardinality(visited_urls) <= max_pages + num_workers - 1

\* Two workers, and the second has claimed a URL beyond the budget: the
\* bound is met.
C15_Witness ==
  /\ prog = "config_scraper"
  /\ mpc = "running"
  /\ num_workers = 2
  /\ page_count = max_pages + num_workers - 1
  /\ Cardinality(visited_urls) = page_count

\* C16: when link extraction raises for the page a thread has fetched, the
\* thread goes back to the head of its loop, the run goes on, the other
\* threads stay where they are and the domains found so far are kept.
C16_ExceptionConfined ==
  [][\A w \in Threads :
       ( /\ pc[w] = "fetch"
         /\ pc'[w] # "fetch"
         /\ Web(current_url[w]).kind = "raise" )
       => ( /\ pc'[w] = "loop"
            /\ mpc' = "running"
            /\ \A v \in Threads \ {w} : pc'[v] = pc[v]
            /\ ResultItems' = ResultItems )]_vars

\* C17: once crawl_website has returned a result, no step other than the
\* return of a later invocation changes what the caller holds.
C17_ResultImmutable ==
  [][(returned # <<>> /\ ~(mpc = "running" /\ mpc' = "returned"))
       => returned' = returned]_vars

\* The locks a thread holds.
HeldBy(w) ==
  {l \in 1..3 : locks[l] = w}

\* C18: in config_scraper.py a thread holds a lock only inside the body of
\* one of its "with lock:" blocks: a worker that is fetching, or waiting on
\* the queue, holds none of the three locks, and no worker holds two.
C18_NoIoUnderLock ==
  prog = "config_scraper" =>
    \A w \in Threads :
      /\ pc[w] = "fetch" => HeldBy(w) = {}
      /\ Cardinality(HeldBy(w)) <= 1
      /\ HeldBy(w) # {} =>
           pc[w] \in {"budget", "visit_cs", "count_cs", "put_cs", "ext_cs"}

\* One worker is fetching while the other is inside the critical section of
\* the visited set.
C18_Witness ==
  /\ prog = "config_scraper"
  /\ \E v \in Started : \E w \in Started :
       /\ v # w
       /\ pc[v] = "fetch"
       /\ pc[w] = "put_cs"
       /\ visited_urls_lock = w

\* C19: when a run of config_scraper.py that started from a clean queue has
\* returned, the visited set has as many URLs as fetches were made, and at
\* most max_pages.
C19_VisitedEqualsFetched ==
  (prog = "config_scraper" /\ clean_start /\ mpc = "returned") =>
    /\ Cardinality(visited_urls) = TotalFetches
    /\ Cardinality(visited_urls) <= max_pages

\* C20: in config_scraper.py, once page_count has reached max_pages no
\* worker starts a fetch any more, and the run comes to its end: every
\* worker leaves its loop and crawl_website returns.
C20_WorkersExitAfterBudget ==
  /\ [][(mpc = "running" /\ page_count >= max_pages)
          => \A w \in Threads : pc'[w] = "fetch" => pc[w] = "fetch"]_vars
  /\ (mpc = "running" /\ page_count >= max_pages) ~> (mpc = "returned")

\* A run of two workers has returned with the budget exactly used and URLs
\* left in the queue.
C20_Witness ==
  /\ prog = "config_scraper"
  /\ num_workers = 2
  /\ mpc = "returned"
  /\ page_count = max_pages
  /\ url_queue # <<>>
  /\ \A w \in Started : pc[w] = "done"

====
